---- MODULE Spec2Model ----
(***************************************************************************)
(* SkyGen Weather: the App component's state (src/App.tsx), the two        *)
(* OpenWeather fetch wrappers (src/services/weatherService.ts) and the     *)
(* Gemini wrapper (src/unnamed/part_001, the module App.tsx imports as     *)
(* ./services/geminiService).                                              *)
(*                                                                         *)
(* Representation.  A JavaScript string is a sequence of pieces; a piece   *)
(* is either one whitespace character or an opaque run of other            *)
(* characters, and concatenation is \o.  A nullable value is a sequence of *)
(* length at most one: <<>> is null, <<x>> is x.  A JSON text is a         *)
(* sequence of tokens, and JSONparse turns it into a JSON value.           *)
(*                                                                         *)
(* src/unnamed/part_000 holds earlier variants of App.tsx (a stored API    *)
(* key and a setup screen); the component modelled is src/App.tsx.         *)
(*                                                                         *)
(* The variable last records what the handler or callback that ran last    *)
(* did (which one, what the provider answered, what the catch block        *)
(* caught), so that a property of an operation's result is a state         *)
(* predicate.                                                              *)
(***************************************************************************)
EXTENDS Integers, Sequences, FiniteSets, TLC

VARIABLES
  hasGeolocation,  \* navigator.geolocation is present
  ai,              \* the module-level Gemini client was constructed
  city,            \* useState('') : the text of the search box
  weather,         \* useState<WeatherData | null>(null)
  insight,         \* useState<GeminiInsight | null>(null)
  loading,         \* useState(false)
  aiLoading,       \* useState(false)
  error,           \* useState<string | null>(null)
  lookups,         \* weather lookups in flight, oldest first
  aiCalls,         \* generateContent calls in flight, oldest first
  last             \* what the handler or callback that ran last did

vars == <<hasGeolocation, ai, city, weather, insight, loading, aiLoading,
          error, lookups, aiCalls, last>>

-----------------------------------------------------------------------------
(* Bounds of the model *)

\* How many pieces the text typed into the search box may have.
MaxCityLen == 2

\* How many lookups, and how many AI calls, may be in flight at once when the
\* handlers are invoked directly (SpecHandlers).
MaxInFlight == 1

-----------------------------------------------------------------------------
(* Nullable values and strings *)

None == <<>>

Some(x) == <<x>>

Whitespace == {" "}

RECURSIVE trimStart(_)
trimStart(s) ==
  IF s # <<>> /\ Head(s) \in Whitespace THEN trimStart(Tail(s)) ELSE s

RECURSIVE trimEnd(_)
trimEnd(s) ==
  IF s # <<>> /\ s[Len(s)] \in Whitespace
  THEN trimEnd(SubSeq(s, 1, Len(s) - 1))
  ELSE s

\* String.prototype.trim
trim(s) == trimEnd(trimStart(s))

\* a || b on strings: the empty string is falsy
OrElse(a, b) == IF a # <<>> THEN a ELSE b

-----------------------------------------------------------------------------
(* JSON values and JSON.parse *)

JNull == None

JStr(s) == Some([kind |-> "string", str |-> s, obj |-> <<>>])

JObj(f) == Some([kind |-> "object", str |-> <<>>, obj |-> f])

IsObject(v) == v # JNull /\ v[1].kind = "object"

\* JavaScript truthiness of a JSON value
Truthy(v) == v # JNull /\ ~(v[1].kind = "string" /\ v[1].str = <<>>)

Has(v, key) == IsObject(v) /\ key \in DOMAIN v[1].obj

\* v[key] for an object v; an absent property reads as undefined, which the
\* model does not tell from null
Get(v, key) == IF Has(v, key) THEN v[1].obj[key] ELSE JNull

\* Tokens of a JSON text
Tok(t) == [t |-> t, s |-> <<>>]

TStr(s) == [t |-> "string", s |-> s]

LB == Tok("{")

RB == Tok("}")

COLON == Tok(":")

COMMA == Tok(",")

NUL == Tok("null")

\* a token that starts no JSON value
JUNK == Tok("junk")

ScalarValue(tok) == IF tok.t = "string" THEN JStr(tok.s) ELSE JNull

IsScalar(tok) == tok.t \in {"string", "null"}

\* the tokens between the braces are  key : value  separated by commas
MembersOk(m) ==
  /\ Len(m) % 4 = 3
  /\ \A i \in 1..Len(m) :
       CASE i % 4 = 1 -> m[i].t = "string"
         [] i % 4 = 2 -> m[i] = COLON
         [] i % 4 = 3 -> IsScalar(m[i])
         [] OTHER     -> m[i] = COMMA

\* a repeated key keeps its last value
MembersObject(m) ==
  LET keyAt == {i \in 1..Len(m) : i % 4 = 1}
      keys  == {m[i].s : i \in keyAt}
      lastOf(k) == CHOOSE i \in keyAt :
                     /\ m[i].s = k
                     /\ \A j \in keyAt : m[j].s = k => j <= i
  IN  [k \in keys |-> ScalarValue(m[lastOf(k) + 2])]

SyntaxError == [name |-> "SyntaxError", message |-> <<"Unexpected token in JSON">>]

NoError == [name |-> "", message |-> <<>>]

\* JSON.parse: [ok, value, err]; ok = FALSE is a thrown SyntaxError
JSONparse(toks) ==
  LET n == Len(toks)
      m == SubSeq(toks, 2, n - 1)
  IN  IF n = 1 /\ IsScalar(toks[1])
      THEN [ok |-> TRUE, value |-> ScalarValue(toks[1]), err |-> NoError]
      ELSE IF n >= 2 /\ toks[1] = LB /\ toks[n] = RB /\ m = <<>>
      THEN [ok |-> TRUE, value |-> JObj(<<>>), err |-> NoError]
      ELSE IF n >= 2 /\ toks[1] = LB /\ toks[n] = RB /\ MembersOk(m)
      THEN [ok |-> TRUE, value |-> JObj(MembersObject(m)), err |-> NoError]
      ELSE [ok |-> FALSE, value |-> JNull, err |-> SyntaxError]

\* the text of an object with the given members, in the given key order
RECURSIVE MembersText(_, _)
MembersText(keys, f) ==
  IF keys = <<>> THEN <<>>
  ELSE LET k == Head(keys)
           v == IF f[k] = JNull THEN NUL ELSE TStr(f[k][1].str)
           one == <<TStr(k), COLON, v>>
       IN  IF Len(keys) = 1 THEN one
           ELSE one \o <<COMMA>> \o MembersText(Tail(keys), f)

ObjectText(keys, f) == <<LB>> \o MembersText(keys, f) \o <<RB>>

-----------------------------------------------------------------------------
(* The weather provider: responses of fetch, and the two wrappers *)

Err(msg) == [name |-> "Error", message |-> msg]

\* response.ok
Ok(status) == status >= 200 /\ status <= 299

Http(status, statusText, body) ==
  [rejected |-> FALSE, err |-> NoError, status |-> status,
   statusText |-> statusText, body |-> body]

\* fetch itself rejects (no connection)
Rejected ==
  [rejected |-> TRUE, err |-> [name |-> "TypeError", message |-> <<"Failed to fetch">>],
   status |-> 0, statusText |-> <<>>, body |-> <<>>]

\* The fields of the provider's response the application reads
\* (name, sys.country, main.temp, ..., weather[0].icon), nesting flattened.
WeatherKeys ==
  << <<"name">>, <<"sys.country">>, <<"main.temp">>, <<"main.feels_like">>,
     <<"main.humidity">>, <<"wind.speed">>, <<"weather[0].description">>,
     <<"weather[0].icon">> >>

Fields(vals) ==
  [k \in {WeatherKeys[i] : i \in 1..Len(WeatherKeys)} |->
     JStr(vals[CHOOSE i \in 1..Len(WeatherKeys) : WeatherKeys[i] = k])]

Oslo ==
  Fields(<< <<"Oslo">>, <<"NO">>, <<"15">>, <<"14">>, <<"80">>, <<"3">>,
            <<"light", " ", "rain">>, <<"10d">> >>)

Lima ==
  Fields(<< <<"Lima">>, <<"PE">>, <<"21.4">>, <<"21.9">>, <<"77">>, <<"4.6">>,
            <<"clear", " ", "sky">>, <<"01d">> >>)

\* coordinates in the open sea: the provider names no place
OpenSea ==
  Fields(<< <<>>, <<>>, <<"9">>, <<"6">>, <<"90">>, <<"11">>,
            <<"overcast", " ", "clouds">>, <<"04n">> >>)

DocumentedBodies == {ObjectText(WeatherKeys, f) : f \in {Oslo, Lima, OpenSea}}

\* a 200 response carries a body of the documented shape, or one that is no
\* JSON at all (a proxy's error page)
WeatherBodies == DocumentedBodies \cup {<<JUNK>>}

WeatherResponses ==
  {Rejected}
    \cup {Http(200, <<"OK">>, b) : b \in WeatherBodies}
    \cup {Http(401, <<"Unauthorized">>, <<JUNK>>),
          Http(404, <<"Not", " ", "Found">>, <<JUNK>>),
          Http(500, <<"Internal", " ", "Server", " ", "Error">>, <<JUNK>>),
          Http(503, <<>>, <<JUNK>>)}

Failure(e, fetched) == [ok |-> FALSE, value |-> JNull, err |-> e, fetched |-> fetched]

\* Mutant for C17: the wrapper rounds the temperature it returns.
responseJson_roundsTemp(resp) ==
  LET p == JSONparse(resp.body)
      v == IF p.ok /\ Has(p.value, <<"main.temp">>)
           THEN JObj([p.value[1].obj EXCEPT ![<<"main.temp">>] = JStr(<<"21">>)])
           ELSE p.value
  IN  [ok |-> p.ok, value |-> v, err |-> p.err, fetched |-> TRUE]

\* return response.json()
responseJson(resp) ==
  LET p == JSONparse(resp.body)
  IN  [ok |-> p.ok, value |-> p.value, err |-> p.err, fetched |-> TRUE]

NotFound == Err(<<"City not found. Please try again.">>)

InvalidCredentials == Err(<<"Invalid OpenWeather API Key.">>)

ProviderError(statusText) == Err(<<"Weather API Error: ">> \o statusText)

MissingKey == Err(<<"OpenWeather API Key is missing.">>)

\* getWeatherByCity(city, apiKey) when fetch settles with resp.
\* fetched: whether fetch was called.
getWeatherByCity(c, key, resp) ==
  IF key = <<>> THEN Failure(MissingKey, FALSE)
  ELSE IF resp.rejected THEN Failure(resp.err, TRUE)
  ELSE IF ~Ok(resp.status)
  THEN IF resp.status = 404 THEN Failure(NotFound, TRUE)
       ELSE IF resp.status = 401 THEN Failure(InvalidCredentials, TRUE)
       ELSE Failure(ProviderError(resp.statusText), TRUE)
  ELSE responseJson(resp)

\* Mutant for C7: the 404 branch of getWeatherByCity copied into
\* getWeatherByCoords.
getWeatherByCoords_with404(key, resp) ==
  IF key = <<>> THEN Failure(MissingKey, FALSE)
  ELSE IF resp.rejected THEN Failure(resp.err, TRUE)
  ELSE IF ~Ok(resp.status)
  THEN IF resp.status = 404 THEN Failure(NotFound, TRUE)
       ELSE IF resp.status = 401 THEN Failure(InvalidCredentials, TRUE)
       ELSE Failure(ProviderError(resp.statusText), TRUE)
  ELSE responseJson(resp)

\* Mutant for C8: getWeatherByCoords without its 401 branch.
getWeatherByCoords_no401(key, resp) ==
  IF key = <<>> THEN Failure(MissingKey, FALSE)
  ELSE IF resp.rejected THEN Failure(resp.err, TRUE)
  ELSE IF ~Ok(resp.status)
  THEN Failure(ProviderError(resp.statusText), TRUE)
  ELSE responseJson(resp)

\* Mutant for C14: getWeatherByCoords without its check of the key.
getWeatherByCoords_noKeyCheck(key, resp) ==
  IF resp.rejected THEN Failure(resp.err, TRUE)
  ELSE IF ~Ok(resp.status)
  THEN IF resp.status = 401 THEN Failure(InvalidCredentials, TRUE)
       ELSE Failure(ProviderError(resp.statusText), TRUE)
  ELSE responseJson(resp)

\* getWeatherByCoords(lat, lon, apiKey) when fetch settles with resp
getWeatherByCoords(key, resp) ==
  IF key = <<>> THEN Failure(MissingKey, FALSE)
  ELSE IF resp.rejected THEN Failure(resp.err, TRUE)
  ELSE IF ~Ok(resp.status)
  THEN IF resp.status = 401 THEN Failure(InvalidCredentials, TRUE)
       ELSE Failure(ProviderError(resp.statusText), TRUE)
  ELSE responseJson(resp)

-----------------------------------------------------------------------------
(* The AI provider: outcomes of generateContent, and generateWeatherInsight *)

InsightKeys == << <<"summary">>, <<"outfitAdvice">>, <<"funFact">> >>

FullInsight ==
  (<<"summary">> :> JStr(<<"Wet.">>)) @@ (<<"outfitAdvice">> :> JStr(<<"Raincoat.">>))
    @@ (<<"funFact">> :> JStr(<<"Petrichor.">>))

NullFunFact ==
  (<<"summary">> :> JStr(<<"Wet.">>)) @@ (<<"outfitAdvice">> :> JStr(<<"Raincoat.">>))
    @@ (<<"funFact">> :> JNull)

NoFunFact ==
  (<<"summary">> :> JStr(<<"Wet.">>)) @@ (<<"outfitAdvice">> :> JStr(<<"Raincoat.">>))

\* response.text: undefined (None), or a string
AiTexts ==
  {None, Some(<<>>), Some(<<JUNK>>),
   Some(ObjectText(InsightKeys, FullInsight)),
   Some(ObjectText(InsightKeys, NullFunFact)),
   Some(ObjectText(SubSeq(InsightKeys, 1, 2), NoFunFact))}

AiResolved(text) == [rejected |-> FALSE, err |-> NoError, text |-> text]

AiRejected ==
  [rejected |-> TRUE, err |-> Err(<<"503 The model is overloaded.">>), text |-> None]

AiOutcomes == {AiRejected} \cup {AiResolved(t) : t \in AiTexts}

Str(v) == IF v = JNull THEN <<"undefined">> ELSE v[1].str

\* the prompt template, lines 16-27
Prompt(w) ==
  <<"Current weather data for ">> \o Str(Get(w, <<"name">>)) \o <<", ">>
    \o Str(Get(w, <<"sys.country">>)) \o <<": Temperature: ">>
    \o Str(Get(w, <<"main.temp">>)) \o <<" (Feels like ">>
    \o Str(Get(w, <<"main.feels_like">>)) \o <<") Condition: ">>
    \o Str(Get(w, <<"weather[0].description">>)) \o <<" Humidity: ">>
    \o Str(Get(w, <<"main.humidity">>)) \o <<" Wind: ">>
    \o Str(Get(w, <<"wind.speed">>))

ConfigurationError == Err(<<"Gemini API Key is missing. Insight features are disabled.">>)

EmptyResponse == Err(<<"No response from Gemini">>)

GenerationFailed == Err(<<"Failed to generate AI insight.">>)

\* the try block, lines 30-49: [ok, value, err]; ok = FALSE is a throw
tryGenerate(outcome) ==
  IF outcome.rejected THEN [ok |-> FALSE, value |-> JNull, err |-> outcome.err]
  ELSE IF outcome.text = None \/ outcome.text = Some(<<>>)
  THEN [ok |-> FALSE, value |-> JNull, err |-> EmptyResponse]
  ELSE JSONparse(outcome.text[1])

\* Mutant for C13: the catch block throws what it caught.
generateWeatherInsight_rethrows(client, w, outcome) ==
  IF ~client
  THEN [ok |-> FALSE, value |-> JNull, err |-> ConfigurationError,
        called |-> FALSE, logged |-> None]
  ELSE LET t == tryGenerate(outcome)
       IN  IF t.ok
           THEN [ok |-> TRUE, value |-> t.value, err |-> NoError,
                 called |-> TRUE, logged |-> None]
           ELSE [ok |-> FALSE, value |-> JNull, err |-> t.err,
                 called |-> TRUE, logged |-> Some(t.err)]

\* Mutant for C15: generateWeatherInsight without its check of the client.
generateWeatherInsight_noClientCheck(client, w, outcome) ==
  LET t == tryGenerate(outcome)
  IN  IF t.ok
      THEN [ok |-> TRUE, value |-> t.value, err |-> NoError,
            called |-> TRUE, logged |-> None]
      ELSE [ok |-> FALSE, value |-> JNull, err |-> GenerationFailed,
            called |-> TRUE, logged |-> Some(t.err)]

\* generateWeatherInsight(weather) with the module's client present or not,
\* when generateContent settles with outcome.
\* called: whether generateContent was called; logged: what console.error got.
generateWeatherInsight(client, w, outcome) ==
  IF ~client
  THEN [ok |-> FALSE, value |-> JNull, err |-> ConfigurationError,
        called |-> FALSE, logged |-> None]
  ELSE LET t == tryGenerate(outcome)
       IN  IF t.ok
           THEN [ok |-> TRUE, value |-> t.value, err |-> NoError,
                 called |-> TRUE, logged |-> None]
           ELSE [ok |-> FALSE, value |-> JNull, err |-> GenerationFailed,
                 called |-> TRUE, logged |-> Some(t.err)]

-----------------------------------------------------------------------------
(* The App component *)

\* process.env.OPENWEATHER_API_KEY; unset here.  Set or not, apiKey is a
\* non-empty string.
OPENWEATHER_API_KEY == <<>>

apiKey == OrElse(OPENWEATHER_API_KEY, <<"072b5fb1fa34faa84a90bd9c35785838">>)

CityPieces == {" ", "Oslo"}

\* what the user can type into the search box
CityInputs == UNION {[1..n -> CityPieces] : n \in 0..MaxCityLen}

NoResponse == Http(0, <<>>, <<>>)

NoOutcome == AiResolved(None)

\* the record of a handler or callback that settled nothing
Did(op) ==
  [op |-> op, path |-> "", ok |-> TRUE, err |-> NoError, logged |-> None,
   resp |-> NoResponse, outcome |-> NoOutcome]

\* the record of a handler or callback that settled a lookup or an AI call:
\* err is what the catch block caught, logged what the service logged
Settled(op, path, ok, err, logged, resp, outcome) ==
  [op |-> op, path |-> path, ok |-> ok, err |-> err, logged |-> logged,
   resp |-> resp, outcome |-> outcome]

Remove(q, i) == SubSeq(q, 1, i - 1) \o SubSeq(q, i + 1, Len(q))

Init ==
  /\ hasGeolocation \in BOOLEAN
  /\ ai \in BOOLEAN
  /\ city = <<>>
  /\ weather = None
  /\ insight = None
  /\ loading = FALSE
  /\ aiLoading = FALSE
  /\ error = None
  /\ lookups = <<>>
  /\ aiCalls = <<>>
  /\ last = Did("init")

\* onChange of the search box: setCity(e.target.value)
setCity(s) ==
  /\ city' = s
  /\ last' = Did("setCity")
  /\ UNCHANGED <<hasGeolocation, ai, weather, insight, loading, aiLoading,
                 error, lookups, aiCalls>>

\* Mutant for C4: the lookup starts without setInsight(null).
startLookup_keepsInsight(lookup) ==
  /\ loading' = TRUE
  /\ error' = None
  /\ UNCHANGED insight
  /\ lookups' = Append(lookups, lookup)

\* Mutant for C10: the lookup starts without setLoading(true).
startLookup_notLoading(lookup) ==
  /\ UNCHANGED loading
  /\ error' = None
  /\ insight' = None
  /\ lookups' = Append(lookups, lookup)

\* lines 22-24 and the call of line 26 (the same lines 46-50 on the location
\* path): the lookup is now in flight
startLookup(lookup) ==
  /\ loading' = TRUE
  /\ error' = None
  /\ insight' = None
  /\ lookups' = Append(lookups, lookup)

\* fetchWeather(searchCity) up to its await
fetchWeather(searchCity) ==
  /\ IF apiKey = <<>>
     THEN /\ error' = Some(<<"Configuration Error: OPENWEATHER_API_KEY is missing.">>)
          /\ UNCHANGED <<loading, insight, lookups>>
     ELSE startLookup([path |-> "city", stage |-> "fetch", q |-> searchCity])
  /\ UNCHANGED <<hasGeolocation, ai, city, weather, aiLoading, aiCalls>>

\* Mutant for C11: the guard tests city instead of city.trim().
handleSearch_noTrim ==
  /\ IF city # <<>> THEN fetchWeather(city) ELSE UNCHANGED
       <<hasGeolocation, ai, city, weather, insight, loading, aiLoading,
         error, lookups, aiCalls>>
  /\ last' = Did("handleSearch")

\* handleSearch: the form's onSubmit
handleSearch ==
  /\ IF trim(city) # <<>> THEN fetchWeather(city) ELSE UNCHANGED
       <<hasGeolocation, ai, city, weather, insight, loading, aiLoading,
         error, lookups, aiCalls>>
  /\ last' = Did("handleSearch")

\* Mutant for C16: setLoading(true) moved above the geolocation check.
fetchWeatherByLocation_loadsFirst ==
  /\ IF apiKey = <<>>
     THEN /\ error' = Some(<<"Configuration Error: OPENWEATHER_API_KEY is missing.">>)
          /\ UNCHANGED <<loading, insight, lookups>>
     ELSE IF ~hasGeolocation
     THEN /\ error' = Some(<<"Geolocation is not supported by your browser">>)
          /\ loading' = TRUE
          /\ UNCHANGED <<insight, lookups>>
     ELSE startLookup([path |-> "coords", stage |-> "position", q |-> <<>>])
  /\ last' = Did("fetchWeatherByLocation")
  /\ UNCHANGED <<hasGeolocation, ai, city, weather, aiLoading, aiCalls>>

\* fetchWeatherByLocation up to getCurrentPosition
fetchWeatherByLocation ==
  /\ IF apiKey = <<>>
     THEN /\ error' = Some(<<"Configuration Error: OPENWEATHER_API_KEY is missing.">>)
          /\ UNCHANGED <<loading, insight, lookups>>
     ELSE IF ~hasGeolocation
     THEN /\ error' = Some(<<"Geolocation is not supported by your browser">>)
          /\ UNCHANGED <<loading, insight, lookups>>
     ELSE startLookup([path |-> "coords", stage |-> "position", q |-> <<>>])
  /\ last' = Did("fetchWeatherByLocation")
  /\ UNCHANGED <<hasGeolocation, ai, city, weather, aiLoading, aiCalls>>

\* getCurrentPosition calls its success callback, which calls
\* getWeatherByCoords and waits for it
positionFound(i) ==
  /\ i \in 1..Len(lookups)
  /\ lookups[i].stage = "position"
  /\ lookups' = [lookups EXCEPT ![i].stage = "fetch"]
  /\ last' = Did("positionFound")
  /\ UNCHANGED <<hasGeolocation, ai, city, weather, insight, loading,
                 aiLoading, error, aiCalls>>

\* getCurrentPosition calls its error callback
positionDenied(i) ==
  /\ i \in 1..Len(lookups)
  /\ lookups[i].stage = "position"
  /\ error' = Some(<<"Unable to retrieve your location">>)
  /\ loading' = FALSE
  /\ lookups' = Remove(lookups, i)
  /\ last' = Settled("positionDenied", "coords", FALSE, NoError, None,
                     NoResponse, NoOutcome)
  /\ UNCHANGED <<hasGeolocation, ai, city, weather, insight, aiLoading, aiCalls>>

\* Mutant for C20: setLoading(false) at the end of the try block instead of
\* in a finally block.
cityLookupSettles_noFinally(i, resp) ==
  /\ i \in 1..Len(lookups)
  /\ lookups[i].path = "city"
  /\ lookups[i].stage = "fetch"
  /\ LET r == getWeatherByCity(lookups[i].q, apiKey, resp)
     IN  /\ IF r.ok
            THEN /\ weather' = r.value
                 /\ loading' = FALSE
                 /\ UNCHANGED error
            ELSE /\ error' = Some(OrElse(r.err.message, <<"Failed to fetch weather">>))
                 /\ weather' = None
                 /\ UNCHANGED loading
         /\ last' = Settled("cityLookupSettles", "city", r.ok, r.err, None,
                            resp, NoOutcome)
  /\ lookups' = Remove(lookups, i)
  /\ UNCHANGED <<hasGeolocation, ai, city, insight, aiLoading, aiCalls>>

\* fetchWeather after its await: the try, catch and finally of lines 25-33
cityLookupSettles(i, resp) ==
  /\ i \in 1..Len(lookups)
  /\ lookups[i].path = "city"
  /\ lookups[i].stage = "fetch"
  /\ LET r == getWeatherByCity(lookups[i].q, apiKey, resp)
     IN  /\ IF r.ok
            THEN /\ weather' = r.value
                 /\ UNCHANGED error
            ELSE /\ error' = Some(OrElse(r.err.message, <<"Failed to fetch weather">>))
                 /\ weather' = None
         /\ last' = Settled("cityLookupSettles", "city", r.ok, r.err, None,
                            resp, NoOutcome)
  /\ loading' = FALSE
  /\ lookups' = Remove(lookups, i)
  /\ UNCHANGED <<hasGeolocation, ai, city, insight, aiLoading, aiCalls>>

\* the success callback after its await: the try, catch and finally of
\* lines 52-60
coordsLookupSettles(i, resp) ==
  /\ i \in 1..Len(lookups)
  /\ lookups[i].path = "coords"
  /\ lookups[i].stage = "fetch"
  /\ LET r    == getWeatherByCoords(apiKey, resp)
         name == Get(r.value, <<"name">>)
     IN  /\ IF r.ok
            THEN /\ weather' = r.value
                 /\ city' = IF Truthy(name) THEN name[1].str ELSE city
                 /\ UNCHANGED error
            ELSE /\ error' = Some(OrElse(r.err.message,
                                         <<"Failed to fetch weather from location">>))
                 /\ UNCHANGED <<weather, city>>
         /\ last' = Settled("coordsLookupSettles", "coords", r.ok, r.err, None,
                            resp, NoOutcome)
  /\ loading' = FALSE
  /\ lookups' = Remove(lookups, i)
  /\ UNCHANGED <<hasGeolocation, ai, insight, aiLoading, aiCalls>>

\* Mutant for C12: handleGetInsight without its first line.
handleGetInsight_noGuard ==
  LET r == generateWeatherInsight(ai, weather, AiRejected)
  IN  /\ IF r.called
         THEN /\ aiLoading' = TRUE
              /\ aiCalls' = Append(aiCalls, [weather |-> weather,
                                             contents |-> Prompt(weather)])
              /\ last' = Did("handleGetInsight")
         ELSE /\ aiLoading' = FALSE
              /\ UNCHANGED aiCalls
              /\ last' = Settled("insightSettles", "", FALSE, r.err, r.logged,
                                 NoResponse, NoOutcome)
      /\ UNCHANGED <<hasGeolocation, ai, city, weather, insight, loading,
                     error, lookups>>

\* handleGetInsight up to its await.  Without a client generateWeatherInsight
\* rejects before any call is made, and the catch and finally blocks run
\* before any other event is handled.
handleGetInsight ==
  IF weather = None
  THEN /\ last' = Did("handleGetInsight")
       /\ UNCHANGED <<hasGeolocation, ai, city, weather, insight, loading,
                      aiLoading, error, lookups, aiCalls>>
  ELSE LET r == generateWeatherInsight(ai, weather, AiRejected)
       IN  /\ IF r.called
              THEN /\ aiLoading' = TRUE
                   /\ aiCalls' = Append(aiCalls, [weather |-> weather,
                                                  contents |-> Prompt(weather)])
                   /\ last' = Did("handleGetInsight")
              ELSE /\ aiLoading' = FALSE
                   /\ UNCHANGED aiCalls
                   /\ last' = Settled("insightSettles", "", FALSE, r.err, r.logged,
                                      NoResponse, NoOutcome)
           /\ UNCHANGED <<hasGeolocation, ai, city, weather, insight, loading,
                          error, lookups>>

\* Mutant for C9: the catch block shows the failure as the page's error.
insightSettles_showsError(i, outcome) ==
  /\ i \in 1..Len(aiCalls)
  /\ LET r == generateWeatherInsight(ai, aiCalls[i].weather, outcome)
     IN  /\ insight' = IF r.ok THEN r.value ELSE insight
         /\ error' = IF r.ok THEN error ELSE Some(r.err.message)
         /\ last' = Settled("insightSettles", "", r.ok, r.err, r.logged,
                            NoResponse, outcome)
  /\ aiLoading' = FALSE
  /\ aiCalls' = Remove(aiCalls, i)
  /\ UNCHANGED <<hasGeolocation, ai, city, weather, loading, lookups>>

\* handleGetInsight after its await: the try, catch and finally of
\* lines 79-86
insightSettles(i, outcome) ==
  /\ i \in 1..Len(aiCalls)
  /\ LET r == generateWeatherInsight(ai, aiCalls[i].weather, outcome)
     IN  /\ insight' = IF r.ok THEN r.value ELSE insight
         /\ last' = Settled("insightSettles", "", r.ok, r.err, r.logged,
                            NoResponse, outcome)
  /\ aiLoading' = FALSE
  /\ aiCalls' = Remove(aiCalls, i)
  /\ UNCHANGED <<hasGeolocation, ai, city, weather, loading, error, lookups>>

\* What the rendered page lets the user do
\* the submit button: disabled={loading || !city.trim()}
SubmitEnabled == ~(loading \/ trim(city) = <<>>)

\* Mutant for C19: the location button without its disabled attribute.
LocationEnabled_always == TRUE

\* the location button: disabled={loading}
LocationEnabled == ~loading

\* the insight button: rendered when weather && !insight, disabled={aiLoading}
InsightEnabled == weather # None /\ insight = None /\ ~aiLoading

Search == SubmitEnabled /\ handleSearch

UseLocation == LocationEnabled /\ fetchWeatherByLocation

GetInsight == InsightEnabled /\ handleGetInsight

Next ==
  \/ \E s \in CityInputs : setCity(s)
  \/ Search
  \/ UseLocation
  \/ GetInsight
  \/ \E i \in 1..Len(lookups) : positionFound(i)
  \/ \E i \in 1..Len(lookups) : positionDenied(i)
  \/ \E i \in 1..Len(lookups), resp \in WeatherResponses : cityLookupSettles(i, resp)
  \/ \E i \in 1..Len(lookups), resp \in WeatherResponses : coordsLookupSettles(i, resp)
  \/ \E i \in 1..Len(aiCalls), outcome \in AiOutcomes : insightSettles(i, outcome)

Spec == Init /\ [][Next]_vars

\* The handlers invoked directly, whatever the page has disabled or not
\* rendered: what a dispatched submit or click event, or a test of the
\* component's handlers, does.
SubmitForm == Len(lookups) < MaxInFlight /\ handleSearch

InvokeLocation == Len(lookups) < MaxInFlight /\ fetchWeatherByLocation

InvokeGetInsight == Len(aiCalls) < MaxInFlight /\ handleGetInsight

\* Under SpecHandlers the providers answer with one success or one failure.
HandlerResponses ==
  {Http(200, <<"OK">>, ObjectText(WeatherKeys, Oslo)),
   Http(404, <<"Not", " ", "Found">>, <<JUNK>>)}

HandlerOutcomes == {AiRejected, AiResolved(Some(ObjectText(InsightKeys, FullInsight)))}

NextHandlers ==
  \/ \E s \in CityInputs : setCity(s)
  \/ SubmitForm
  \/ InvokeLocation
  \/ InvokeGetInsight
  \/ \E i \in 1..Len(lookups) : positionFound(i)
  \/ \E i \in 1..Len(lookups) : positionDenied(i)
  \/ \E i \in 1..Len(lookups), resp \in HandlerResponses : cityLookupSettles(i, resp)
  \/ \E i \in 1..Len(lookups), resp \in HandlerResponses : coordsLookupSettles(i, resp)
  \/ \E i \in 1..Len(aiCalls), outcome \in HandlerOutcomes : insightSettles(i, outcome)

SpecHandlers == Init /\ [][NextHandlers]_vars

\* The page with providers and a geolocation platform that answer: a lookup
\* waiting for its position gets one of the two callbacks, and a fetch in
\* flight settles.
Responsive ==
  /\ WF_vars(\E i \in 1..Len(lookups) : positionFound(i) \/ positionDenied(i))
  /\ WF_vars(\E i \in 1..Len(lookups), resp \in WeatherResponses :
               cityLookupSettles(i, resp))
  /\ WF_vars(\E i \in 1..Len(lookups), resp \in WeatherResponses :
               coordsLookupSettles(i, resp))

SpecLive == Spec /\ Responsive

\* The two fetch wrappers called on their own, with any key, city and answer
\* of fetch; last holds the call and what it returned or threw.
KeyInputs == {<<>>, apiKey}

callGetWeatherByCity(c, key, resp) ==
  /\ last' = [op |-> "getWeatherByCity", key |-> key, city |-> c, resp |-> resp,
              result |-> getWeatherByCity(c, key, resp)]
  /\ UNCHANGED <<hasGeolocation, ai, city, weather, insight, loading,
                 aiLoading, error, lookups, aiCalls>>

callGetWeatherByCoords(key, resp) ==
  /\ last' = [op |-> "getWeatherByCoords", key |-> key, city |-> <<>>, resp |-> resp,
              result |-> getWeatherByCoords(key, resp)]
  /\ UNCHANGED <<hasGeolocation, ai, city, weather, insight, loading,
                 aiLoading, error, lookups, aiCalls>>

NextServices ==
  \/ \E c \in CityInputs, key \in KeyInputs, resp \in WeatherResponses :
       callGetWeatherByCity(c, key, resp)
  \/ \E key \in KeyInputs, resp \in WeatherResponses :
       callGetWeatherByCoords(key, resp)

SpecServices == Init /\ [][NextServices]_vars

-----------------------------------------------------------------------------
(* Properties *)

LookupSettled == last.op \in {"cityLookupSettles", "coordsLookupSettles", "positionDenied"}

\* the provider answered the last lookup with this HTTP status
Answered(status) ==
  /\ last.op \in {"cityLookupSettles", "coordsLookupSettles"}
  /\ ~last.resp.rejected
  /\ last.resp.status = status

\* a generateContent call of the last handleGetInsight settled
CallSettled == last.op = "insightSettles" /\ ai

\* C1: in every reachable state, insight is non-null only if weather is
\* non-null.
C1_InsightOnlyWithWeather == insight # None => weather # None

\* C2: a weather HTTP call and an AI completion call are never in flight at
\* the same time.
C2_NeverBothInFlight ==
  ~(/\ \E i \in 1..Len(lookups) : lookups[i].stage = "fetch"
    /\ aiCalls # <<>>)

\* C3: every failed weather lookup, on the city path or on the location path
\* (provider error or geolocation denial), ends with weather null and error
\* set.
C3_FailedLookupClearsWeather ==
  (LookupSettled /\ ~last.ok) => (weather = None /\ error # None)

\* C4: the step that starts a weather lookup, on either path, leaves insight
\* null and error null.
C4_StartClearsInsightAndError ==
  [][Len(lookups') > Len(lookups) => (insight' = None /\ error' = None)]_vars

\* C4 witness: a city lookup has just started over a displayed snapshot.
C4_Witness ==
  /\ last.op = "handleSearch"
  /\ lookups # <<>>
  /\ weather # None
  /\ insight = None
  /\ error = None

\* C5: when the AI provider's response text is empty or absent,
\* generateWeatherInsight fails with the EmptyResponse error.
C5_EmptyTextIsEmptyResponse ==
  (/\ CallSettled
   /\ ~last.outcome.rejected
   /\ last.outcome.text \in {None, Some(<<>>)})
    => (~last.ok /\ last.err = EmptyResponse)

\* C6: after a successful insight generation, insight is an object whose
\* summary, outfitAdvice and funFact are all present and non-null.
C6_InsightHasAllFields ==
  (CallSettled /\ last.ok) =>
    \A i \in 1..Len(InsightKeys) :
      Has(insight, InsightKeys[i]) /\ Get(insight, InsightKeys[i]) # JNull

\* C7: a 404 yields NotFound on the city path and ProviderError on the
\* coordinate path; every other non-success status yields, on either path,
\* the error both wrappers map it to.
C7_NotFoundOnlyByCity ==
  /\ (Answered(404) /\ last.path = "city") =>
       (last.err = NotFound /\ error = Some(<<"City not found. Please try again.">>))
  /\ (Answered(404) /\ last.path = "coords") =>
       (last.err = ProviderError(last.resp.statusText) /\ last.err # NotFound)
  /\ \A status \in {401, 500, 503} :
       Answered(status) =>
         /\ last.err = getWeatherByCity(<<"Oslo">>, apiKey, last.resp).err
         /\ last.err = getWeatherByCoords(apiKey, last.resp).err

\* C7 witness: a coordinate lookup was answered 404 and shows the provider
\* error.
C7_Witness ==
  /\ Answered(404)
  /\ last.path = "coords"
  /\ error = Some(<<"Weather API Error: ", "Not", " ", "Found">>)

\* C8: a 401 yields InvalidCredentials, never ProviderError, on both paths.
C8_UnauthorizedIsInvalidCredentials ==
  Answered(401) =>
    /\ last.err = InvalidCredentials
    /\ last.err # ProviderError(last.resp.statusText)
    /\ error = Some(<<"Invalid OpenWeather API Key.">>)

\* C8 witness: a coordinate lookup was answered 401.
C8_Witness == Answered(401) /\ last.path = "coords" /\ ~last.ok

\* C9: the step in which an insight generation fails leaves weather, error
\* and insight as they were and sets aiLoading to false; with a snapshot
\* displayed the insight button is then enabled.
C9_FailedInsightChangesNothing ==
  [][(last'.op = "insightSettles" /\ ~last'.ok) =>
       /\ weather' = weather
       /\ error' = error
       /\ insight' = insight
       /\ aiLoading' = FALSE
       /\ (weather' # None => (insight' = None /\ ~aiLoading'))]_vars

\* C9 witness: a generateContent call failed while a snapshot is displayed,
\* and the insight button is enabled again.
C9_Witness ==
  /\ CallSettled
  /\ ~last.ok
  /\ last.err = GenerationFailed
  /\ weather # None
  /\ InsightEnabled

\* C10 as stated: whenever a lookup is in flight, a new lookup can be
\* started.
C10_NewLookupWhileInFlight == lookups # <<>> => ENABLED (Search \/ UseLocation)

\* C10 as amended: a lookup is started only when no lookup is in flight, and
\* a lookup leaves only by settling itself (nothing cancels it).
C10_NoLookupStartsWhileInFlight ==
  [][/\ Len(lookups') > Len(lookups) => lookups = <<>>
     /\ Len(lookups') < Len(lookups) => (LookupSettled' /\ lookups' = <<>>)]_vars

\* C10 witness: a lookup is in flight, the search box holds a city, and both
\* triggers are disabled.
C10_Witness ==
  /\ lookups # <<>>
  /\ trim(city) # <<>>
  /\ ~SubmitEnabled
  /\ ~LocationEnabled

\* C11: the step in which the form is submitted with an empty or
\* whitespace-only city starts no lookup and changes none of weather,
\* insight, error, loading, city (nor aiLoading and the calls in flight).
C11_BlankSubmitChangesNothing ==
  [][(last'.op = "handleSearch" /\ trim(city) = <<>>) =>
       UNCHANGED <<weather, insight, error, loading, city, lookups,
                   aiLoading, aiCalls>>]_vars

\* C11 witness: the form was submitted with a whitespace-only city while an
\* error was shown, and no lookup is in flight.
C11_Witness ==
  /\ last.op = "handleSearch"
  /\ city # <<>>
  /\ trim(city) = <<>>
  /\ error # None
  /\ lookups = <<>>
  /\ ~loading

\* C12: every AI call in flight was made with a snapshot, and the step in
\* which get-insight is invoked with weather null starts no AI call and
\* changes no state.
C12_NoInsightCallWithoutWeather ==
  /\ [](\A i \in 1..Len(aiCalls) : aiCalls[i].weather # None)
  /\ [][(last'.op = "handleGetInsight" /\ weather = None) =>
          UNCHANGED <<weather, insight, error, loading, city, lookups,
                      aiLoading, aiCalls>>]_vars

\* C12 witness: get-insight was invoked with a client present and weather
\* null, and no AI call is in flight.
C12_Witness ==
  /\ last.op = "handleGetInsight"
  /\ ai
  /\ weather = None
  /\ aiCalls = <<>>
  /\ ~aiLoading

\* the last generateContent call failed at the call: it rejected, or its
\* text was no JSON
CallLevelFailure ==
  /\ CallSettled
  /\ \/ last.outcome.rejected
     \/ /\ last.outcome.text \notin {None, Some(<<>>)}
        /\ ~JSONparse(last.outcome.text[1]).ok

\* C13: a call-level failure of insight generation reaches the caller as
\* GenerationFailed; the cause is logged and its message is not the caller's.
C13_CallFailureIsGenerationFailed ==
  CallLevelFailure =>
    /\ ~last.ok
    /\ last.err = GenerationFailed
    /\ last.logged # None
    /\ last.logged[1] \in {last.outcome.err, SyntaxError}
    /\ last.logged[1].message # last.err.message

\* C13 witness: generateContent rejected with the provider's error, which was
\* logged, and the caller caught GenerationFailed.
C13_Witness ==
  /\ CallSettled
  /\ last.outcome.rejected
  /\ last.logged = Some(Err(<<"503 The model is overloaded.">>))
  /\ last.err = GenerationFailed

\* C15: without a client, no generateContent call is ever in flight, the
\* client stays absent, and get-insight fails at once with
\* ConfigurationError.
C15_NoClientNoCall ==
  /\ [](~ai =>
         /\ aiCalls = <<>>
         /\ ~aiLoading
         /\ last.op = "insightSettles" =>
              (~last.ok /\ last.err = ConfigurationError /\ last.logged = None))
  /\ [][~ai => ~ai']_vars

\* C15 witness: get-insight was invoked over a snapshot without a client and
\* failed with ConfigurationError.
C15_Witness ==
  /\ ~ai
  /\ weather # None
  /\ last.op = "insightSettles"
  /\ last.err = ConfigurationError
  /\ aiCalls = <<>>

\* C16: without geolocation, the step of the location action sets the
\* 'not supported' error, starts no lookup and leaves loading as it was
\* (false).
C16_UnsupportedGeolocation ==
  [][(last'.op = "fetchWeatherByLocation" /\ ~hasGeolocation) =>
       /\ error' = Some(<<"Geolocation is not supported by your browser">>)
       /\ lookups' = lookups
       /\ loading' = loading
       /\ ~loading']_vars

\* C16 witness: the location action ran without geolocation.
C16_Witness ==
  /\ last.op = "fetchWeatherByLocation"
  /\ ~hasGeolocation
  /\ error = Some(<<"Geolocation is not supported by your browser">>)
  /\ lookups = <<>>
  /\ ~loading

\* C17: after a successful lookup answered with a body of the documented
\* shape, on either path, weather has exactly the body's fields, each with
\* the body's value.
C17_SnapshotEqualsBody ==
  (/\ last.op \in {"cityLookupSettles", "coordsLookupSettles"}
   /\ last.ok
   /\ last.resp.body \in DocumentedBodies) =>
    /\ IsObject(weather)
    /\ DOMAIN weather[1].obj = {WeatherKeys[i] : i \in 1..Len(WeatherKeys)}
    /\ \A i \in 1..Len(WeatherKeys) :
         /\ last.resp.body[4 * i - 2] = TStr(WeatherKeys[i])
         /\ Get(weather, WeatherKeys[i]) = JStr(last.resp.body[4 * i].s)

\* C17 witness: a coordinate lookup succeeded and weather is the Lima
\* snapshot.
C17_Witness ==
  /\ last.op = "coordsLookupSettles"
  /\ last.ok
  /\ last.resp.body = ObjectText(WeatherKeys, Lima)
  /\ Get(weather, <<"main.temp">>) = JStr(<<"21.4">>)

\* C19: with the triggers enabled only while loading is false, at most one
\* weather lookup (its geolocation query included) is in flight.
C19_AtMostOneLookup == Len(lookups) <= 1

\* C19 witness: a location lookup is waiting for its position, and loading
\* is true.
C19_Witness ==
  /\ Len(lookups) = 1
  /\ lookups[1].stage = "position"
  /\ loading
  /\ weather # None

\* C14: called with an empty key, getWeatherByCity and getWeatherByCoords
\* both throw the missing-key error and do not call fetch.
C14_MissingKeyFailsBeforeFetch ==
  (last.op \in {"getWeatherByCity", "getWeatherByCoords"} /\ last.key = <<>>) =>
    /\ ~last.result.ok
    /\ last.result.err = MissingKey
    /\ ~last.result.fetched

\* C14 witness: getWeatherByCoords was called with an empty key, while the
\* provider would have answered 200.
C14_Witness ==
  /\ last.op = "getWeatherByCoords"
  /\ last.key = <<>>
  /\ last.resp.status = 200
  /\ last.result.err = MissingKey

\* C18: a successful insight generation populates insight, next to a
\* displayed snapshot, only when that snapshot is the one the request was
\* started for; and a step that displays another snapshot leaves no insight
\* displayed.
C18_InsightOfDisplayedSnapshot ==
  [][/\ (last'.op = "insightSettles" /\ last'.ok /\ aiCalls # <<>>
          /\ weather' # None) =>
          aiCalls[1].weather = weather'
     /\ (weather' # weather /\ weather' # None) => insight' = None]_vars

\* C20: whenever a weather lookup is in flight, eventually none is and
\* loading is false.
C20_LookupEndsLoading == (lookups # <<>>) ~> (lookups = <<>> /\ ~loading)

\* C20 witness: a location lookup ended with geolocation denied, and loading
\* is false again.
C20_Witness ==
  /\ last.op = "positionDenied"
  /\ lookups = <<>>
  /\ ~loading
  /\ error = Some(<<"Unable to retrieve your location">>)

====
